---- MODULE Spec2Model ----
(***************************************************************************)
(* Model of the marketing quiz application: the notes-quiz page            *)
(* (src/src/app/notes-quiz/page.tsx, component NotesQuizPage) and the      *)
(* main page (src/unnamed/part_001, component Home).  Each React state     *)
(* cell is a variable, each event handler is an action that applies all    *)
(* of its batched setState calls at once, followed by the cleanup of the   *)
(* timeout effect when one of its dependencies changed.                    *)
(***************************************************************************)
EXTENDS Integers, Sequences, FiniteSets, TLC

(***************************************************************************)
(* Bounds of the model.                                                    *)
(***************************************************************************)
MaxPool == 2
MaxSamplePool == 6
MaxSampleSize == 6
MaxSliderValue == 5
MaxStreak == 3
MaxTimers == 2
MaxAlternatives == 3

(***************************************************************************)
(* Program constants.                                                      *)
(***************************************************************************)
DefaultNumQuestions == 10
SliderMin == 5
SliderMax == 50
FallbackCap == 5

(***************************************************************************)
(* Values.  null is modelled per type: NoQ for a Question, NoStatus for    *)
(* the answer status, NoLabel for a label, NoTimer for a timeout id, and   *)
(* NoTopic for a missing (falsy) pdf_filename.                             *)
(***************************************************************************)
NoTopic == ""
NoStatus == "null"
NoLabel == "null"
NoTimer == 0
NoError == ""
NoQ == [number |-> "none", question_text |-> "", pdf_filename |-> NoTopic,
        correct_answer |-> "", alternatives |-> <<>>]

\* A question of the JSON file; its text is told apart by its number
Q(n, t, c) == [number |-> n, question_text |-> n, pdf_filename |-> t,
               correct_answer |-> c, alternatives |-> <<"A", "B">>]

\* The question bank the loaded JSON files are drawn from.
Bank == << Q("q1", "A", "a"), Q("q2", NoTopic, "B"), Q("q3", "A", "A"),
           Q("q4", "B", "b"), Q("q5", "A", "B"), Q("q6", "B", "A"),
           Q("q7", "C", "a"), Q("q8", "A", "B") >>

Numbers == {Bank[i].number : i \in 1..Len(Bank)}
Labels == {"A", "B"}

Min(a, b) == IF a < b THEN a ELSE b
Max(a, b) == IF a > b THEN a ELSE b
Range(s) == {s[i] : i \in 1..Len(s)}

\* The quotient is rounded down
Ceil_floor(a, b) == a \div b

\* Math.ceil(a / b) for a >= 0, b > 0
Ceil(a, b) == (a + b - 1) \div b

\* String.prototype.toUpperCase on the labels of the bank
toUpperCase(l) == IF l = "a" THEN "A" ELSE IF l = "b" THEN "B" ELSE l

\* The cut is left out
slice_whole(s, n) == s

\* Array.prototype.slice(0, n)
slice(s, n) == SubSeq(s, 1, Min(Max(n, 0), Len(s)))

\* All orders a shuffle of s can produce
AllOrders(s) ==
  IF s = <<>> THEN {<<>>}
  ELSE {[i \in 1..Len(s) |-> s[p[i]]] : p \in Permutations(1..Len(s))}

\* [newArray[i], newArray[j]] = [newArray[j], newArray[i]]
swap(arr, i, j) == [arr EXCEPT ![i] = arr[j], ![j] = arr[i]]

\* The loop of shuffleArray from place i down
RECURSIVE fisherYates(_, _)
fisherYates(arr, i) ==
  IF i <= 1 THEN {arr}
  ELSE UNION {fisherYates(swap(arr, i, j), i - 1) : j \in 1..i}

\* The swap overwrites one element with the other instead of exchanging them
shuffleArray_overwrite(s) ==
  {[i \in 1..Len(s) |-> s[f[i]]] : f \in [1..Len(s) -> 1..Len(s)]}

\* Fisher-Yates shuffle of a copy: for i from the last place down to the
\* second, the element at i is exchanged with the one at a random j <= i
shuffleArray(s) == fisherYates(s, Len(s))

\* Every place is filled with the first element
randomSort_first(s) == {[i \in 1..Len(s) |-> s[1]]}

\* [...s].sort(() => 0.5 - Math.random()): an order the engine chooses
randomSort(s) == AllOrders(s)

\* question.alternatives && Array.isArray(question.alternatives); a record
\* of the JSON file without the field fails the test
hasAlternatives(q) == "alternatives" \in DOMAIN q

\* Every alternative is replaced by the first one
shuffleAlternatives_first(q) ==
  IF q = NoQ THEN {NoQ}
  ELSE IF ~hasAlternatives(q) THEN {q}
  ELSE {[q EXCEPT !.alternatives = [i \in 1..Len(q.alternatives) |-> q.alternatives[1]]]}

\* shuffleAlternatives(question): null stays null, a record without an
\* alternatives array is returned as is, otherwise the alternatives are
\* shuffled in a copy
shuffleAlternatives(q) ==
  IF q = NoQ THEN {NoQ}
  ELSE IF ~hasAlternatives(q) THEN {q}
  ELSE {[q EXCEPT !.alternatives = a] : a \in shuffleArray(q.alternatives)}

\* The input of shuffleAlternatives after the call: shuffleArray works on
\* [...array] and the result is a new object {...question, alternatives}, so
\* the question passed in keeps its alternatives
inputAfterShuffle_inPlace(q, shown) == shown

inputAfterShuffle(q, shown) == q

(***************************************************************************)
(* Sampling of a round.                                                    *)
(***************************************************************************)
\* q.pdf_filename || "notes_quiz" (notes-quiz page, "all" path)
sourceKey(q) == IF q.pdf_filename = NoTopic THEN "notes_quiz" ELSE q.pdf_filename

\* q.pdf_filename || "Unknown Source" (notes-quiz page, topic list and filter)
sessionKey(q) == IF q.pdf_filename = NoTopic THEN "Unknown Source" ELSE q.pdf_filename

\* The keys of questionsBySession in insertion order
RECURSIVE keysInOrder(_, _)
keysInOrder(qs, seen) ==
  IF qs = <<>> THEN <<>>
  ELSE IF sourceKey(Head(qs)) \in seen THEN keysInOrder(Tail(qs), seen)
  ELSE <<sourceKey(Head(qs))>> \o keysInOrder(Tail(qs), seen \cup {sourceKey(Head(qs))})

\* questionsBySession[key]
questionsBySession(qs, key) == SelectSeq(qs, LAMBDA q : sourceKey(q) = key)

\* The concatenations sampledQuestions can hold after the forEach over the
\* groups: from each group a shuffled copy cut to questionsPerSession
RECURSIVE sampledConcat(_, _, _)
sampledConcat(qs, keys, questionsPerSession) ==
  IF keys = <<>> THEN {<<>>}
  ELSE {slice(sh, questionsPerSession) \o rest :
          sh \in randomSort(questionsBySession(qs, Head(keys))),
          rest \in sampledConcat(qs, Tail(keys), questionsPerSession)}

\* getSampledQuestions(allQuestions, questionsPerSession) of the notes-quiz page
getSampledQuestions(qs, questionsPerSession) ==
  UNION {randomSort(c) : c \in sampledConcat(qs, keysInOrder(qs, {}), questionsPerSession)}

\* getRandomQuestions(questions, count) of the main page
getRandomQuestions(qs, count) == {slice(sh, count) : sh \in shuffleArray(qs)}

\* numUniqueSources and questionsToSamplePerSource of startNewQuizRound
numUniqueSources(qs) ==
  LET n == Cardinality({sourceKey(qs[i]) : i \in 1..Len(qs)})
  IN IF n > 0 THEN n ELSE 1

\* The whole size is asked of every source
questionsToSamplePerSource_whole(qs, n) == n

questionsToSamplePerSource(qs, n) == Ceil(n, numUniqueSources(qs))

\* The filter by session is left out
sessionQuestions_all(pg, qs, session) == qs

\* The questions matching the chosen session
sessionQuestions(pg, qs, session) ==
  IF pg = "notes" THEN SelectSeq(qs, LAMBDA q : sessionKey(q) = session)
  ELSE SelectSeq(qs, LAMBDA q : q.pdf_filename = session)

\* questionsForRound before the fallback
sampledForRound(pg, qs, session, n) ==
  IF session = "all"
  THEN IF pg = "notes"
       THEN {slice(pre, n) : pre \in getSampledQuestions(qs, questionsToSamplePerSource(qs, n))}
       ELSE getRandomQuestions(qs, n)
  ELSE IF pg = "notes"
       THEN {slice(sh, n) : sh \in randomSort(sessionQuestions(pg, qs, session))}
       ELSE getRandomQuestions(sessionQuestions(pg, qs, session), n)

\* The fallback is never taken
needsFallback_never(round, qs, n) == FALSE

\* The condition of the fallback
needsFallback(round, qs, n) == Len(round) = 0 /\ Len(qs) > 0 /\ n > 0

\* The fallback sample is not capped
fallbackSample_uncapped(pg, qs, n) == {slice(sh, n) : sh \in shuffleArray(qs)}

\* The fallback sample from the whole pool
fallbackSample(pg, qs, n) ==
  IF pg = "notes"
  THEN {slice(sh, Min(n, Min(FallbackCap, Len(qs)))) : sh \in randomSort(qs)}
  ELSE getRandomQuestions(qs, Min(n, FallbackCap))

\* questionsForRound as passed to setActiveQuestions
questionsForRound(pg, qs, session, n) ==
  UNION {IF needsFallback(r, qs, n) THEN fallbackSample(pg, qs, n) ELSE {r} :
           r \in sampledForRound(pg, qs, session, n)}

(***************************************************************************)
(* State: the useState cells of the mounted page component, the pending    *)
(* setTimeout callbacks with the values their closures captured, and the   *)
(* last event dispatched (history).                                        *)
(***************************************************************************)
VARIABLES
  page,                          \* "notes" (NotesQuizPage) or "home" (Home)
  isLoading, error, allQuestions, sessions,
  selectedSession, numQuestions,
  showQuizSetup,                 \* showQuizSetup / showSessionSelector
  activeQuestions, currentQuestionIndex, currentQuestion,
  streak, answerStatus, selectedAlternativeLabel,
  incorrectlyAnsweredQuestions, questionToReview, answerHistory,
  feedbackTimeoutId,
  timers,                        \* pending timeouts
  last                           \* the last event: [op, arg, ok, dirty, prev, advances, wrong, sink,
                                 \* afterGoBack]

loadVars == <<isLoading, error, allQuestions, sessions>>
configVars == <<selectedSession, numQuestions>>
roundVars == <<activeQuestions, currentQuestionIndex, currentQuestion, streak,
               answerStatus, selectedAlternativeLabel,
               incorrectlyAnsweredQuestions, answerHistory>>
vars == <<page, isLoading, error, allQuestions, sessions, selectedSession,
          numQuestions, showQuizSetup, activeQuestions, currentQuestionIndex,
          currentQuestion, streak, answerStatus, selectedAlternativeLabel,
          incorrectlyAnsweredQuestions, questionToReview, answerHistory,
          feedbackTimeoutId, timers, last>>

Pages == {"notes", "home"}
NoHistory == [n \in Numbers |-> <<>>]

\* What an event remembers of the state a goBack was dispatched in (history
\* only): the cursor, the pending question, the streak and the mistakes when
\* a question was pending with no outcome displayed
NoPrev == [idx |-> 0, q |-> NoQ, streak |-> 0, mistakes |-> <<>>]

\* The event of the mount of a component
MountEvent ==
  [op |-> "mount", arg |-> "", ok |-> TRUE, dirty |-> FALSE, prev |-> NoPrev, advances |-> 0,
   wrong |-> <<>>, sink |-> "none", afterGoBack |-> FALSE]

\* The number of advances of a presented question since the start of the
\* round (history only): 0 after a start or a leave of the quiz view, one
\* more after an advance that finds a question pending, and -1 from the
\* first accepted goBack of the round on
AdvancesAfter(op, ok) ==
  IF op \in {"start", "selector", "leave", "reload"} \/ (op = "pin" /\ ok) THEN 0
  ELSE IF op = "goBack" /\ ok THEN -1
  ELSE IF op = "advance" /\ currentQuestion # NoQ /\ last.advances >= 0
       THEN last.advances + 1
  ELSE last.advances

\* Two labels are the same letter, whatever their case
SameLetter(a, b) == \E pair \in {{"A", "a"}, {"B", "b"}} : a \in pair /\ b \in pair

\* The numbers of the questions that got an incorrect answer since the start
\* of the round, in the order of their first incorrect answer (history only)
WrongAfter(op, arg, ok) ==
  IF op \in {"start", "leave", "reload"} \/ (op = "pin" /\ ok) THEN <<>>
  ELSE IF /\ op = "answer"
          /\ ok
          /\ ~SameLetter(arg, currentQuestion.correct_answer)
          /\ currentQuestion.number \notin Range(last.wrong)
       THEN Append(last.wrong, currentQuestion.number)
  ELSE last.wrong

Event(op, arg, ok) ==
  [op |-> op, arg |-> arg, ok |-> ok, dirty |-> FALSE, prev |-> NoPrev,
   advances |-> AdvancesAfter(op, ok), wrong |-> WrongAfter(op, arg, ok),
   sink |-> "none", afterGoBack |-> FALSE]

\* The event of a handler that calls the telemetry sink, with the outcome of
\* that call
SinkEvent(op, arg, ok, sink) == [Event(op, arg, ok) EXCEPT !.sink = IF ok THEN sink ELSE "none"]

\* The event of an answer, with whether it is dispatched right after an
\* accepted goBack
AnswerEvent(label, ok, sink) ==
  [SinkEvent("answer", label, ok, sink) EXCEPT
     !.afterGoBack = (last.op = "goBack" /\ last.ok)]

\* The event of a goBack, with the state it was dispatched in and whether
\* a timeout was pending then
GoBackEvent(ok) ==
  [Event("goBack", IF timers # {} THEN "timer pending" ELSE "", ok) EXCEPT
     !.prev = IF ok /\ currentQuestion # NoQ /\ answerStatus = NoStatus
              THEN [idx |-> currentQuestionIndex, q |-> currentQuestion,
                    streak |-> streak, mistakes |-> incorrectlyAnsweredQuestions]
              ELSE NoPrev]

\* The event of a direct advance, with what the goBack right before it
\* remembered
AdvanceEvent(ok) ==
  [Event("advance", "", ok) EXCEPT
     !.prev = IF last.op = "goBack" THEN last.prev ELSE NoPrev]

\* The event of a start, with whether the state it replaced held a
\* round in progress (history only)
StartEvent(session, ok) ==
  [op |-> "start", arg |-> session, ok |-> ok,
   dirty |-> (currentQuestionIndex > 0 /\ incorrectlyAnsweredQuestions # <<>>),
   prev |-> NoPrev, advances |-> 0, wrong |-> <<>>, sink |-> "none",
   afterGoBack |-> FALSE]

\* The JSON files the fetch can deliver
Pools == {SubSeq(Bank, 1, n) : n \in 0..MaxPool}

\* The state of a freshly mounted component
Mounted(pg) ==
  /\ page = pg
  /\ isLoading = TRUE
  /\ error = NoError
  /\ allQuestions = <<>>
  /\ sessions = {}
  /\ selectedSession = "all"
  /\ numQuestions = DefaultNumQuestions
  /\ showQuizSetup = TRUE
  /\ activeQuestions = <<>>
  /\ currentQuestionIndex = 0
  /\ currentQuestion = NoQ
  /\ streak = 0
  /\ answerStatus = NoStatus
  /\ selectedAlternativeLabel = NoLabel
  /\ incorrectlyAnsweredQuestions = <<>>
  /\ questionToReview = NoQ
  /\ answerHistory = NoHistory
  /\ feedbackTimeoutId = NoTimer

Init ==
  /\ \E pg \in Pages : Mounted(pg)
  /\ timers = {}
  /\ last = MountEvent

(***************************************************************************)
(* Timeouts.                                                               *)
(***************************************************************************)
\* The timeout is not removed
clearTimeout_noop(id, tms) == tms

\* clearTimeout(id)
clearTimeout(id, tms) == {t \in tms : t.id # id}

\* The effect has no cleanup
effectCleanup_none(oldId, depsChanged, tms) == tms

\* The cleanup clears every timeout, the one just scheduled included
effectCleanup_all(oldId, depsChanged, tms) == {}

\* The cleanup of the effect with dependencies [feedbackTimeoutId,
\* activeQuestions]: it runs when a dependency changed (and on unmount) and
\* clears the timeout id the previous render had
effectCleanup(oldId, depsChanged, tms) ==
  IF depsChanged /\ oldId # NoTimer THEN clearTimeout(oldId, tms) ELSE tms

\* The id setTimeout returns: one that no pending timeout and no state cell holds
UsedTimerIds == {t.id : t \in timers} \cup {t.ftid : t \in timers} \cup {feedbackTimeoutId}
FreeTimerIds == (1..MaxTimers) \ UsedTimerIds
newTimeoutId == CHOOSE i \in FreeTimerIds : \A j \in FreeTimerIds : i <= j

\* The timeout scheduled by handleAnswer / handleSkip; its callback closes
\* over loadNextQuestion of the current render
scheduled(id, skipped) ==
  [id |-> id, skipped |-> skipped, aq |-> activeQuestions,
   idx |-> currentQuestionIndex, ftid |-> feedbackTimeoutId]

(***************************************************************************)
(* Which screen the component renders.                                     *)
(***************************************************************************)
Screen ==
  IF isLoading THEN "loading"
  ELSE IF error # NoError /\ Len(allQuestions) = 0 THEN "error"
  ELSE IF showQuizSetup \/ (Len(allQuestions) > 0 /\ Len(activeQuestions) = 0
                             /\ currentQuestion = NoQ) THEN "setup"
  ELSE IF /\ currentQuestion = NoQ
          /\ Len(activeQuestions) > 0
          /\ currentQuestionIndex >= Len(activeQuestions) - 1
          /\ ~showQuizSetup THEN "complete"
  ELSE "quiz"

(***************************************************************************)
(* Loading of the pool.                                                    *)
(***************************************************************************)
uniqueSessions(pg, data) ==
  IF pg = "notes" THEN {sessionKey(data[i]) : i \in 1..Len(data)}
  ELSE {data[i].pdf_filename : i \in 1..Len(data)}

\* loadInitialData, the fetch and the parse succeed
loadInitialDataOk(data) ==
  /\ isLoading
  /\ allQuestions' = data
  /\ sessions' = uniqueSessions(page, data)
  /\ error' = IF Len(data) = 0 THEN "No questions found" ELSE error
  /\ isLoading' = FALSE
  /\ last' = Event("load", "ok", TRUE)
  /\ UNCHANGED <<page, configVars, showQuizSetup, roundVars, questionToReview,
                 feedbackTimeoutId, timers>>

\* The catch records no error
loadInitialDataFails_noError ==
  /\ isLoading
  /\ isLoading' = FALSE
  /\ last' = Event("load", "fail", FALSE)
  /\ UNCHANGED <<page, error, allQuestions, sessions, configVars, showQuizSetup,
                 roundVars, questionToReview, feedbackTimeoutId, timers>>

\* loadInitialData, the fetch rejects, the status is not ok or the parse throws
loadInitialDataFails ==
  /\ isLoading
  /\ error' = "HTTP error"
  /\ isLoading' = FALSE
  /\ last' = Event("load", "fail", FALSE)
  /\ UNCHANGED <<page, allQuestions, sessions, configVars, showQuizSetup,
                 roundVars, questionToReview, feedbackTimeoutId, timers>>

(***************************************************************************)
(* startNewQuizRound(session)                                              *)
(***************************************************************************)
\* The early return of the notes-quiz page when nothing is loaded
startReturnsEarly == page = "notes" /\ Len(allQuestions) = 0

\* The last question of the round is presented first
firstQuestion_last(pg, round) ==
  IF Len(round) = 0 THEN {NoQ}
  ELSE IF pg = "notes" THEN shuffleAlternatives(round[Len(round)]) ELSE {round[Len(round)]}

\* The first presented question
firstQuestion(pg, round) ==
  IF Len(round) = 0 THEN {NoQ}
  ELSE IF pg = "notes" THEN shuffleAlternatives(round[1]) ELSE {round[1]}

\* The timeout handling at the end of startNewQuizRound
startClearsTimeout(id, tms) == IF id # NoTimer THEN clearTimeout(id, tms) ELSE tms

\* The state change of startNewQuizRound(session)
startNewQuizRoundCells(session) ==
  /\ IF startReturnsEarly
     THEN /\ activeQuestions' = <<>>
          /\ currentQuestion' = NoQ
          /\ showQuizSetup' = TRUE
          /\ timers' = effectCleanup(feedbackTimeoutId, TRUE, timers)
          /\ UNCHANGED <<currentQuestionIndex, streak, answerStatus,
                         selectedAlternativeLabel, incorrectlyAnsweredQuestions,
                         questionToReview, answerHistory, feedbackTimeoutId>>
     ELSE /\ \E round \in questionsForRound(page, allQuestions, session, numQuestions) :
               /\ activeQuestions' = round
               /\ currentQuestion' \in firstQuestion(page, round)
               /\ showQuizSetup' = (Len(round) = 0)
          /\ currentQuestionIndex' = 0
          /\ streak' = 0
          /\ answerStatus' = NoStatus
          /\ selectedAlternativeLabel' = NoLabel
          /\ incorrectlyAnsweredQuestions' = <<>>
          /\ questionToReview' = NoQ
          /\ answerHistory' = NoHistory
          /\ feedbackTimeoutId' = NoTimer
          /\ timers' = effectCleanup(feedbackTimeoutId, TRUE,
                                     startClearsTimeout(feedbackTimeoutId, timers))
  /\ UNCHANGED <<page, loadVars, configVars>>

startNewQuizRound(session) ==
  /\ last' = StartEvent(session, ~startReturnsEarly)
  /\ startNewQuizRoundCells(session)

(***************************************************************************)
(* loadNextQuestion, as called by a timeout callback with the values its   *)
(* closure captured (aq, idx, ftid) or directly with the current ones.     *)
(***************************************************************************)
\* The index is taken from 1
at_oneBased(aq, i) == IF i \in 1..Len(aq) THEN aq[i] ELSE NoQ

\* activeQuestions[i] (0-based; undefined is presented as no question)
at(aq, i) == IF i + 1 \in 1..Len(aq) THEN aq[i + 1] ELSE NoQ

\* The question a page presents for a stored one
present(pg, q) == IF pg = "notes" THEN shuffleAlternatives(q) ELSE {q}

\* clearFeedbackAndTimeout: the timeouts left and the id cell afterwards
clearFeedbackTimers(ftid, tms) == IF ftid # NoTimer THEN clearTimeout(ftid, tms) ELSE tms
clearFeedbackId(ftid, cell) == IF ftid # NoTimer THEN NoTimer ELSE cell

\* The round ends one question early
hasNextQuestion_early(aq, idx) == Len(aq) > 0 /\ idx < Len(aq) - 2

\* The test of loadNextQuestion for a next question
hasNextQuestion(aq, idx) == Len(aq) > 0 /\ idx < Len(aq) - 1

\* The cursor is not moved
nextIndex_stay(aq, idx, cur) == cur

\* The cursor loadNextQuestion leaves
nextIndex(aq, idx, cur) == IF hasNextQuestion(aq, idx) THEN idx + 1 ELSE cur

\* The state change of loadNextQuestion, but for the timeouts
loadNextQuestionCells(aq, idx) ==
  /\ answerStatus' = NoStatus
  /\ selectedAlternativeLabel' = NoLabel
  /\ currentQuestionIndex' = nextIndex(aq, idx, currentQuestionIndex)
  /\ IF hasNextQuestion(aq, idx)
     THEN currentQuestion' \in present(page, at(aq, idx + 1))
     ELSE currentQuestion' = NoQ
  /\ activeQuestions' =
       IF hasNextQuestion(aq, idx) /\ aq = activeQuestions
       THEN [activeQuestions EXCEPT ![idx + 2] = inputAfterShuffle(@, currentQuestion')]
       ELSE activeQuestions

\* loadNextQuestion() called directly on the current render
loadNextQuestion ==
  /\ last' = AdvanceEvent(hasNextQuestion(activeQuestions, currentQuestionIndex))
  /\ loadNextQuestionCells(activeQuestions, currentQuestionIndex)
  /\ feedbackTimeoutId' = clearFeedbackId(feedbackTimeoutId, feedbackTimeoutId)
  /\ timers' = effectCleanup(feedbackTimeoutId, feedbackTimeoutId' # feedbackTimeoutId,
                             clearFeedbackTimers(feedbackTimeoutId, timers))
  /\ UNCHANGED <<page, loadVars, configVars, showQuizSetup, streak,
                 incorrectlyAnsweredQuestions, questionToReview, answerHistory>>

\* The callback of a pending timeout runs: loadNextQuestion() of the render
\* that scheduled it, then setFeedbackTimeoutId(null)
timeoutFires(t) ==
  /\ t \in timers
  /\ last' = Event("advance", "timer", hasNextQuestion(t.aq, t.idx))
  /\ loadNextQuestionCells(t.aq, t.idx)
  /\ feedbackTimeoutId' = NoTimer
  /\ timers' = effectCleanup(feedbackTimeoutId, feedbackTimeoutId # NoTimer,
                             clearFeedbackTimers(t.ftid, timers \ {t}))
  /\ UNCHANGED <<page, loadVars, configVars, showQuizSetup, streak,
                 incorrectlyAnsweredQuestions, questionToReview, answerHistory>>

(***************************************************************************)
(* handleAnswer(alternative), handleSkip(), handleGoBack()                 *)
(***************************************************************************)
\* The outcomes of a call of the telemetry sink: the event is delivered, the
\* sink rejects it (an error result of the insert, an event gtag drops), or
\* the call raises an exception
Sinks == {"delivered", "rejected", "throws"}

\* The exception of the sink call reaches the handler: event() of the
\* notes-quiz page calls window.gtag unprotected, logQuizEvent of the main
\* page is asynchronous, not awaited, and catches
sinkThrows(pg, sink) == pg = "notes" /\ sink = "throws"

\* A question with a recorded answer takes no other answer
acceptsInput_unanswered ==
  /\ currentQuestion # NoQ
  /\ answerStatus = NoStatus
  /\ answerHistory[currentQuestion.number] = <<>>

\* The displayed outcome is not looked at
acceptsInput_anyStatus == currentQuestion # NoQ

\* The guard of handleAnswer and handleSkip: a question is shown and no
\* outcome is displayed
acceptsInput == currentQuestion # NoQ /\ answerStatus = NoStatus

\* alternative.label.toUpperCase() === currentQuestion.correct_answer.toUpperCase()
isCorrect(label, q) == toUpperCase(label) = toUpperCase(q.correct_answer)

\* The streak is never reset
streakAfter_noReset(prev, correct) == prev + 1

\* A correct answer counts twice
streakAfter_double(prev, correct) == IF correct THEN prev + 2 ELSE 0

\* The streak after an answer
streakAfter(prev, correct) == IF correct THEN prev + 1 ELSE 0

\* A new mistake is put first
withMistake_prepend(prev, q) ==
  IF \E i \in 1..Len(prev) : prev[i].number = q.number THEN prev ELSE <<q>> \o prev

\* The mistake is appended without the lookup by number
withMistake_noLookup(prev, q) == Append(prev, q)

\* The update of incorrectlyAnsweredQuestions after an incorrect answer
withMistake(prev, q) ==
  IF \E i \in 1..Len(prev) : prev[i].number = q.number THEN prev ELSE Append(prev, q)

\* Nothing but the history of events changes
Rejected ==
  UNCHANGED <<page, loadVars, configVars, showQuizSetup, roundVars,
              questionToReview, feedbackTimeoutId, timers>>

\* The answer moves to the next question at once instead of showing feedback
handleAnswer_advances(label, sink) ==
  /\ last' = AnswerEvent(label, acceptsInput, sink)
  /\ IF ~acceptsInput THEN Rejected
     ELSE /\ loadNextQuestionCells(activeQuestions, currentQuestionIndex)
          /\ UNCHANGED <<page, loadVars, configVars, showQuizSetup, streak,
                         incorrectlyAnsweredQuestions, questionToReview, answerHistory,
                         feedbackTimeoutId, timers>>

\* handleAnswer(alternative), with the outcome of its telemetry call
handleAnswer(label, sink) ==
  /\ last' = AnswerEvent(label, acceptsInput, sink)
  /\ IF ~acceptsInput THEN Rejected
     ELSE IF sinkThrows(page, sink)
     THEN /\ selectedAlternativeLabel' = label
          /\ timers' = effectCleanup(feedbackTimeoutId, FALSE,
                                     clearFeedbackTimers(feedbackTimeoutId, timers))
          /\ UNCHANGED <<page, loadVars, configVars, showQuizSetup, activeQuestions,
                         currentQuestionIndex, currentQuestion, streak, answerStatus,
                         incorrectlyAnsweredQuestions, questionToReview, answerHistory,
                         feedbackTimeoutId>>
     ELSE LET correct == isCorrect(label, currentQuestion)
              id == newTimeoutId
          IN /\ FreeTimerIds # {}
             /\ correct => streak < MaxStreak
             /\ selectedAlternativeLabel' = label
             /\ answerHistory' = [answerHistory EXCEPT ![currentQuestion.number] = <<label, correct>>]
             /\ streak' = streakAfter(streak, correct)
             /\ answerStatus' = IF correct THEN "correct" ELSE "incorrect"
             /\ incorrectlyAnsweredQuestions' =
                  IF correct THEN incorrectlyAnsweredQuestions
                  ELSE withMistake(incorrectlyAnsweredQuestions, currentQuestion)
             /\ feedbackTimeoutId' = id
             /\ timers' = effectCleanup(feedbackTimeoutId, TRUE,
                            clearFeedbackTimers(feedbackTimeoutId, timers)
                              \cup {scheduled(id, FALSE)})
             /\ UNCHANGED <<page, loadVars, configVars, showQuizSetup, activeQuestions,
                            currentQuestionIndex, currentQuestion, questionToReview>>

handleSkip(sink) ==
  /\ last' = SinkEvent("skip", "", acceptsInput, sink)
  /\ IF ~acceptsInput THEN Rejected
     ELSE IF sinkThrows(page, sink)
     THEN /\ answerStatus' = "skipped"
          /\ selectedAlternativeLabel' = NoLabel
          /\ feedbackTimeoutId' = clearFeedbackId(feedbackTimeoutId, feedbackTimeoutId)
          /\ timers' = effectCleanup(feedbackTimeoutId, feedbackTimeoutId' # feedbackTimeoutId,
                                     clearFeedbackTimers(feedbackTimeoutId, timers))
          /\ UNCHANGED <<page, loadVars, configVars, showQuizSetup, activeQuestions,
                         currentQuestionIndex, currentQuestion, streak,
                         incorrectlyAnsweredQuestions, questionToReview, answerHistory>>
     ELSE LET id == newTimeoutId
          IN /\ FreeTimerIds # {}
             /\ answerStatus' = "skipped"
             /\ selectedAlternativeLabel' = NoLabel
             /\ feedbackTimeoutId' = id
             /\ timers' = effectCleanup(feedbackTimeoutId, TRUE,
                            clearFeedbackTimers(feedbackTimeoutId, timers)
                              \cup {scheduled(id, TRUE)})
             /\ UNCHANGED <<page, loadVars, configVars, showQuizSetup, activeQuestions,
                            currentQuestionIndex, currentQuestion, streak,
                            incorrectlyAnsweredQuestions, questionToReview, answerHistory>>

\* handleStartQuiz of the notes-quiz page: event({action: "start_quiz"}),
\* then startNewQuizRound(selectedSession)
handleStartQuiz(sink) ==
  /\ page = "notes"
  /\ last' = [StartEvent(selectedSession, ~startReturnsEarly /\ ~sinkThrows(page, sink))
               EXCEPT !.sink = sink]
  /\ IF sinkThrows(page, sink) THEN Rejected
     ELSE startNewQuizRoundCells(selectedSession)

\* The first question counts as having a previous one
canGoBack_atFirst(idx) == idx >= 0

\* The guard of handleGoBack
canGoBack(idx) == idx > 0

\* The cursor is left where it is
prevIndex_same(idx) == idx

\* const prevIndex = currentQuestionIndex - 1
prevIndex(idx) == idx - 1

handleGoBack ==
  /\ last' = GoBackEvent(canGoBack(currentQuestionIndex))
  /\ IF ~canGoBack(currentQuestionIndex) THEN Rejected
     ELSE /\ answerStatus' = NoStatus
          /\ selectedAlternativeLabel' = NoLabel
          /\ currentQuestionIndex' = prevIndex(currentQuestionIndex)
          /\ currentQuestion' \in present(page, at(activeQuestions, prevIndex(currentQuestionIndex)))
          /\ activeQuestions' =
               IF prevIndex(currentQuestionIndex) + 1 \in 1..Len(activeQuestions)
               THEN [activeQuestions EXCEPT ![prevIndex(currentQuestionIndex) + 1] =
                       inputAfterShuffle(@, currentQuestion')]
               ELSE activeQuestions
          /\ feedbackTimeoutId' = clearFeedbackId(feedbackTimeoutId, feedbackTimeoutId)
          /\ timers' = effectCleanup(feedbackTimeoutId, feedbackTimeoutId' # feedbackTimeoutId,
                                     clearFeedbackTimers(feedbackTimeoutId, timers))
          /\ UNCHANGED <<page, loadVars, configVars, showQuizSetup, streak,
                         incorrectlyAnsweredQuestions, questionToReview, answerHistory>>

(***************************************************************************)
(* Leaving the round.                                                      *)
(***************************************************************************)
\* goToSessionSelector of the main page
goToSessionSelector ==
  /\ page = "home"
  /\ last' = Event("selector", "", TRUE)
  /\ showQuizSetup' = TRUE
  /\ currentQuestion' = NoQ
  /\ activeQuestions' = <<>>
  /\ answerStatus' = NoStatus
  /\ timers' = effectCleanup(feedbackTimeoutId, TRUE, timers)
  /\ UNCHANGED <<page, loadVars, configVars, currentQuestionIndex, streak,
                 selectedAlternativeLabel, incorrectlyAnsweredQuestions,
                 questionToReview, answerHistory, feedbackTimeoutId>>

\* The component is unmounted (its effect cleanup runs) and the component
\* of page pg is mounted
navigate(pg) ==
  /\ page' = pg
  /\ isLoading' = TRUE
  /\ error' = NoError
  /\ allQuestions' = <<>>
  /\ sessions' = {}
  /\ selectedSession' = "all"
  /\ numQuestions' = DefaultNumQuestions
  /\ showQuizSetup' = TRUE
  /\ activeQuestions' = <<>>
  /\ currentQuestionIndex' = 0
  /\ currentQuestion' = NoQ
  /\ streak' = 0
  /\ answerStatus' = NoStatus
  /\ selectedAlternativeLabel' = NoLabel
  /\ incorrectlyAnsweredQuestions' = <<>>
  /\ questionToReview' = NoQ
  /\ answerHistory' = NoHistory
  /\ feedbackTimeoutId' = NoTimer
  /\ timers' = effectCleanup(feedbackTimeoutId, TRUE, timers)

\* goBackToMainPage of the notes-quiz page: router.push("/")
goBackToMainPage ==
  /\ page = "notes"
  /\ last' = Event("leave", "home", TRUE)
  /\ navigate("home")

\* handlePinSubmit of the main page: router.push("/notes-quiz") on the PIN
handlePinSubmit(pin) ==
  /\ page = "home"
  /\ last' = Event("pin", pin, pin = "5555")
  /\ IF pin = "5555" THEN navigate("notes") ELSE Rejected

\* window.location.reload() of the error screen
reload ==
  /\ last' = Event("reload", "", TRUE)
  /\ navigate(page)

(***************************************************************************)
(* The setup form and the review modal.                                    *)
(***************************************************************************)
setSelectedSession(session) ==
  /\ last' = Event("session", session, TRUE)
  /\ selectedSession' = session
  /\ UNCHANGED <<page, loadVars, numQuestions, showQuizSetup, roundVars,
                 questionToReview, feedbackTimeoutId, timers>>

setNumQuestions(n) ==
  /\ last' = Event("size", "", TRUE)
  /\ numQuestions' = n
  /\ UNCHANGED <<page, loadVars, selectedSession, showQuizSetup, roundVars,
                 questionToReview, feedbackTimeoutId, timers>>

\* The review button of the i-th mistake: setQuestionToReview(shuffleAlternatives(q))
reviewMistake(i) ==
  /\ i \in 1..Len(incorrectlyAnsweredQuestions)
  /\ last' = Event("review", incorrectlyAnsweredQuestions[i].number, TRUE)
  /\ questionToReview' \in shuffleAlternatives(incorrectlyAnsweredQuestions[i])
  /\ incorrectlyAnsweredQuestions' =
       [incorrectlyAnsweredQuestions EXCEPT ![i] = inputAfterShuffle(@, questionToReview')]
  /\ UNCHANGED <<page, loadVars, configVars, showQuizSetup, activeQuestions,
                 currentQuestionIndex, currentQuestion, streak, answerStatus,
                 selectedAlternativeLabel, answerHistory, feedbackTimeoutId, timers>>

\* The close buttons of the review modal: setQuestionToReview(null)
closeReview ==
  /\ questionToReview # NoQ
  /\ last' = Event("closeReview", "", TRUE)
  /\ questionToReview' = NoQ
  /\ UNCHANGED <<page, loadVars, configVars, showQuizSetup, roundVars,
                 feedbackTimeoutId, timers>>

(***************************************************************************)
(* The events the rendered screen offers: a control dispatches its handler *)
(* only while it is rendered and not disabled.                             *)
(***************************************************************************)
\* The values the range input can deliver (min 5; max 50 on the main page,
\* the pool size capped at 50 on the notes-quiz page; a max below min
\* leaves min)
sliderMax(pg, qs) ==
  IF pg = "notes" /\ Len(qs) > 0 THEN Min(Len(qs), SliderMax) ELSE SliderMax

sliderValues(pg, qs) ==
  {SliderMin} \cup {n \in SliderMin..Min(SliderMax, MaxSliderValue) : n <= sliderMax(pg, qs)}

\* disabled={allQuestions.length === 0 && !error}
startDisabled == Len(allQuestions) = 0 /\ error = NoError

FetchResolves == \E data \in Pools : loadInitialDataOk(data)

FetchFails == loadInitialDataFails

ChooseSession ==
  /\ Screen = "setup"
  /\ \E session \in {"all"} \cup sessions : setSelectedSession(session)

MoveSlider ==
  /\ Screen = "setup"
  /\ \E n \in sliderValues(page, allQuestions) : setNumQuestions(n)

\* handleStartQuiz / handleSelectSessionAndStart(selectedSession)
ClickStart ==
  /\ Screen = "setup"
  /\ ~startDisabled
  /\ startNewQuizRound(selectedSession)

ClickPlayAgain ==
  /\ Screen = "complete"
  /\ startNewQuizRound(selectedSession)

ClickAlternative ==
  /\ Screen = "quiz"
  /\ currentQuestion # NoQ
  /\ answerStatus = NoStatus
  /\ \E label \in Range(currentQuestion.alternatives) : handleAnswer(label, "delivered")

ClickSkip ==
  /\ Screen = "quiz"
  /\ ~(answerStatus # NoStatus \/ currentQuestion = NoQ)
  /\ handleSkip("delivered")

ClickBack ==
  /\ Screen = "quiz"
  /\ ~(currentQuestionIndex = 0 \/ answerStatus # NoStatus)
  /\ handleGoBack

ClickReview ==
  /\ Screen = "quiz"
  /\ \E i \in 1..Len(incorrectlyAnsweredQuestions) : reviewMistake(i)

ClickCloseReview ==
  /\ Screen = "quiz"
  /\ closeReview

\* The X of the quiz screen and the second button of the completion screen
\* (and, on the notes-quiz page, the link of the setup screen)
ClickExit ==
  \/ /\ page = "notes"
     /\ Screen \in {"setup", "complete", "quiz"}
     /\ goBackToMainPage
  \/ /\ page = "home"
     /\ Screen \in {"complete", "quiz"}
     /\ goToSessionSelector

SubmitPin ==
  /\ Screen = "setup"
  /\ \E pin \in {"5555", "0000"} : handlePinSubmit(pin)

ClickTryAgain ==
  /\ Screen = "error"
  /\ reload

TimeoutElapses == \E t \in timers : timeoutFires(t)

Next ==
  \/ FetchResolves
  \/ FetchFails
  \/ ChooseSession
  \/ MoveSlider
  \/ ClickStart
  \/ ClickPlayAgain
  \/ ClickAlternative
  \/ ClickSkip
  \/ ClickBack
  \/ ClickReview
  \/ ClickCloseReview
  \/ ClickExit
  \/ SubmitPin
  \/ ClickTryAgain
  \/ TimeoutElapses

Spec == Init /\ [][Next]_vars

(***************************************************************************)
(* The round handlers called as operations of the quiz engine, whatever    *)
(* the screen shows and whether or not their control is enabled: any       *)
(* label, at any time.  A round is started from the setup and the          *)
(* completion screen.                                                      *)
(***************************************************************************)
Topics == {"all", "A", "B", NoTopic, "Unknown Source", "notes_quiz", "Other"}

EngineLoad == FetchResolves \/ FetchFails

EngineStart == ClickStart \/ ClickPlayAgain

EngineAnswer == \E label \in Labels : handleAnswer(label, "delivered")

EngineSkip == handleSkip("delivered")

EngineGoBack == handleGoBack

EngineAdvance == loadNextQuestion

EngineTimeout == TimeoutElapses

EngineSelector == goToSessionSelector

EngineLeave == goBackToMainPage \/ handlePinSubmit("5555")

NextEngine ==
  \/ EngineLoad
  \/ EngineStart
  \/ EngineAnswer
  \/ EngineSkip
  \/ EngineGoBack
  \/ EngineAdvance
  \/ EngineTimeout
  \/ EngineSelector
  \/ EngineLeave

SpecEngine == Init /\ [][NextEngine]_vars

(***************************************************************************)
(* The events that replace or abandon a round, dispatched at any time      *)
(* against the answers, the skips and the timeout callbacks of the round:  *)
(* a start with any topic, the return to the topic selector, the leave of  *)
(* the page and the reload of the error screen.                            *)
(***************************************************************************)
AbandonStart == \E session \in Topics : startNewQuizRound(session)

NextAbandon ==
  \/ EngineLoad
  \/ AbandonStart
  \/ EngineAnswer
  \/ EngineSkip
  \/ EngineTimeout
  \/ EngineSelector
  \/ EngineLeave
  \/ ClickTryAgain

SpecAbandon == Init /\ [][NextAbandon]_vars

(***************************************************************************)
(* The page driven through its controls while a call of the telemetry sink *)
(* may fail: event() of utils/analytics on the notes-quiz page,            *)
(* logQuizEvent on the main page.                                          *)
(***************************************************************************)
TelemetryStart ==
  /\ Screen = "setup"
  /\ ~startDisabled
  /\ IF page = "notes" THEN \E sink \in Sinks : handleStartQuiz(sink)
     ELSE startNewQuizRound(selectedSession)

TelemetryAnswer ==
  /\ Screen = "quiz"
  /\ currentQuestion # NoQ
  /\ answerStatus = NoStatus
  /\ \E label \in Range(currentQuestion.alternatives), sink \in Sinks :
       handleAnswer(label, sink)

TelemetrySkip ==
  /\ Screen = "quiz"
  /\ ~(answerStatus # NoStatus \/ currentQuestion = NoQ)
  /\ \E sink \in Sinks : handleSkip(sink)

NextTelemetry ==
  \/ FetchResolves
  \/ FetchFails
  \/ TelemetryStart
  \/ TelemetryAnswer
  \/ TelemetrySkip
  \/ TimeoutElapses
  \/ ClickBack
  \/ ClickPlayAgain
  \/ ClickExit

SpecTelemetry == Init /\ [][NextTelemetry]_vars

(***************************************************************************)
(* shuffleAlternatives as a function of the question: a round on the       *)
(* notes-quiz page over a question of two alternatives, one of             *)
(* MaxAlternatives and a record of the JSON file without alternatives,     *)
(* with mistakes to review; the questions are presented by an advance or a *)
(* goBack and reviewed from the list of mistakes.                          *)
(***************************************************************************)
LongQuestion ==
  [Bank[3] EXCEPT !.alternatives = SubSeq(<<"A", "B", "C", "D", "E">>, 1, MaxAlternatives)]

Malformed ==
  [number |-> "q4", question_text |-> "q4", pdf_filename |-> "B", correct_answer |-> "b"]

InitShuffle ==
  /\ page = "notes"
  /\ isLoading = FALSE
  /\ error = NoError
  /\ allQuestions = <<Bank[1], LongQuestion, Malformed>>
  /\ sessions = {"A", "B"}
  /\ selectedSession = "all"
  /\ numQuestions = DefaultNumQuestions
  /\ showQuizSetup = FALSE
  /\ activeQuestions \in {<<Bank[1], LongQuestion, Malformed>>,
                          <<LongQuestion, Bank[1], Malformed>>}
  /\ currentQuestionIndex = 0
  /\ currentQuestion \in shuffleAlternatives(activeQuestions[1])
  /\ streak = 0
  /\ answerStatus = NoStatus
  /\ selectedAlternativeLabel = NoLabel
  /\ incorrectlyAnsweredQuestions \in
       {<<Bank[1]>>, <<LongQuestion>>, <<LongQuestion, Bank[1]>>}
  /\ questionToReview = NoQ
  /\ answerHistory =
       [n \in Numbers |->
          IF \E i \in 1..Len(incorrectlyAnsweredQuestions) :
               incorrectlyAnsweredQuestions[i].number = n
          THEN <<"B", FALSE>> ELSE <<>>]
  /\ feedbackTimeoutId = NoTimer
  /\ timers = {}
  /\ last = MountEvent

ShufflePresentNext == loadNextQuestion

ShufflePresentPrevious == handleGoBack

ShuffleReview == \E i \in 1..Len(incorrectlyAnsweredQuestions) : reviewMistake(i)

ShuffleCloseReview == closeReview

NextShuffle ==
  \/ ShufflePresentNext
  \/ ShufflePresentPrevious
  \/ ShuffleReview
  \/ ShuffleCloseReview

SpecShuffle == InitShuffle /\ [][NextShuffle]_vars

(***************************************************************************)
(* startNewQuizRound as a function of the pool, the topic and the size.    *)
(***************************************************************************)
SamplePools == {SubSeq(Bank, 1, n) : n \in 0..MaxSamplePool}

InitSample ==
  /\ page \in Pages
  /\ isLoading = FALSE
  /\ allQuestions \in SamplePools
  /\ sessions = uniqueSessions(page, allQuestions)
  /\ error = (IF Len(allQuestions) = 0 THEN "No questions found" ELSE NoError)
  /\ selectedSession = "all"
  /\ numQuestions \in 1..MaxSampleSize
  /\ showQuizSetup = TRUE
  /\ activeQuestions = <<>>
  /\ currentQuestionIndex = 0
  /\ currentQuestion = NoQ
  /\ streak = 0
  /\ answerStatus = NoStatus
  /\ selectedAlternativeLabel = NoLabel
  /\ incorrectlyAnsweredQuestions = <<>>
  /\ questionToReview = NoQ
  /\ answerHistory = NoHistory
  /\ feedbackTimeoutId = NoTimer
  /\ timers = {}
  /\ last = MountEvent

\* The first start after the load, for every topic
SampleStart ==
  /\ last.op = "mount"
  /\ \E session \in Topics : startNewQuizRound(session)

NextSample == SampleStart

SpecSample == InitSample /\ [][NextSample]_vars

(***************************************************************************)
(* Properties.                                                             *)
(***************************************************************************)
\* The step is the dispatch of the named event
StepIs(op) == last'.op = op

\* A question is shown and no outcome of it is displayed
AwaitingAnswer == currentQuestion # NoQ /\ answerStatus = NoStatus

\* The round is complete: no pending question, a non-empty round, not in setup
Complete == currentQuestion = NoQ /\ Len(activeQuestions) > 0 /\ ~showQuizSetup

\* C1: an accepted answer sets the streak to the previous streak + 1 when the
\* chosen label is the correct one and to 0 when it is not; a skip leaves the
\* streak unchanged; the streak is never negative.
C1_StreakRule ==
  [][ /\ (StepIs("answer") /\ AwaitingAnswer) =>
            streak' = (IF SameLetter(last'.arg, currentQuestion.correct_answer)
                       THEN streak + 1 ELSE 0)
      /\ StepIs("skip") => streak' = streak
      /\ streak' >= 0 ]_vars

\* Witness of C1: a correct answer has just raised the streak to 2.
C1_Witness ==
  /\ last.op = "answer"
  /\ last.ok
  /\ answerStatus = "correct"
  /\ streak = 2

\* C2: no question number occurs twice among the mistakes of a round.
C2_MistakesUnique ==
  \A i, j \in 1..Len(incorrectlyAnsweredQuestions) :
    i # j => incorrectlyAnsweredQuestions[i].number # incorrectlyAnsweredQuestions[j].number

\* Witness of C2: a question already among the mistakes, stored from an
\* earlier presentation, has just been answered incorrectly again.
C2_Witness ==
  /\ last.op = "answer"
  /\ answerStatus = "incorrect"
  /\ \E i \in 1..Len(incorrectlyAnsweredQuestions) :
       /\ incorrectlyAnsweredQuestions[i].number = currentQuestion.number
       /\ incorrectlyAnsweredQuestions[i] # currentQuestion

\* The topic a page files a question under, and the number of questions of
\* the pool a topic choice matches
TopicOf(pg, q) ==
  IF pg = "notes" /\ q.pdf_filename = NoTopic THEN "Unknown Source" ELSE q.pdf_filename

Matching(pg, qs, session) ==
  IF session = "all" THEN Len(qs)
  ELSE Cardinality({i \in 1..Len(qs) : TopicOf(pg, qs[i]) = session})

\* C3: a started round has at most numQuestions questions and at most as many
\* as the pool has for the topic (as the whole pool has, when no question
\* matches the topic and the fallback is used).
C3_RoundLength ==
  last.op = "start" =>
    /\ Len(activeQuestions) <= numQuestions
    /\ Len(activeQuestions) <=
         (IF Matching(page, allQuestions, last.arg) = 0 THEN Len(allQuestions)
          ELSE Matching(page, allQuestions, last.arg))

\* Witness of C3: a round of topic A cut to a size below the number of
\* questions of that topic.
C3_Witness ==
  /\ last.op = "start"
  /\ last.arg = "A"
  /\ Len(activeQuestions) = numQuestions
  /\ numQuestions < Matching(page, allQuestions, "A")

\* The topic groups of the "all" path, a missing topic being one group
GroupOf(q) == IF q.pdf_filename = NoTopic THEN "(missing)" ELSE q.pdf_filename
NumTopics(qs) == Cardinality({GroupOf(qs[i]) : i \in 1..Len(qs)})
FromGroup(qs, g) == Cardinality({i \in 1..Len(qs) : GroupOf(qs[i]) = g})

\* C4: in a round of all topics on the notes-quiz page no topic has more than
\* ceil(numQuestions / number of topics) questions.
C4_TopicShare ==
  (last.op = "start" /\ last.arg = "all" /\ page = "notes" /\ Len(allQuestions) > 0) =>
    \A i \in 1..Len(allQuestions) :
      FromGroup(activeQuestions, GroupOf(allQuestions[i]))
        <= Ceil(numQuestions, NumTopics(allQuestions))

\* Witness of C4: three topics, size 3, and the topic with three questions
\* in the pool has one in the round.
C4_Witness ==
  /\ last.op = "start"
  /\ last.arg = "all"
  /\ page = "notes"
  /\ NumTopics(allQuestions) = 3
  /\ numQuestions = 3
  /\ FromGroup(allQuestions, "A") = 3
  /\ FromGroup(activeQuestions, "A") = 1
  /\ Len(activeQuestions) = 3

\* C5: a round becomes complete exactly by an advance at the last cursor: such
\* an advance completes the round, an advance at a smaller cursor does not,
\* and no other step completes it.
C5_CompleteIffLastAdvance ==
  [][ /\ (~Complete /\ Complete') =>
            (StepIs("advance") /\ currentQuestionIndex = Len(activeQuestions) - 1)
      /\ (StepIs("advance") /\ Len(activeQuestions) > 0 /\ ~showQuizSetup
            /\ currentQuestionIndex = Len(activeQuestions) - 1) => Complete'
      /\ (StepIs("advance") /\ currentQuestionIndex < Len(activeQuestions) - 1) => ~Complete'
    ]_vars

\* Witness of C5: an advance has just completed a round of two questions.
C5_Witness ==
  /\ last.op = "advance"
  /\ Complete
  /\ Len(activeQuestions) = 2
  /\ currentQuestionIndex = 1

\* C6: a start yields no round only when the pool is empty: with a non-empty
\* pool, whatever the topic and the size, the round has a question and its
\* first question is pending.
C6_EmptyOnlyOnEmptyPool ==
  last.op = "start" =>
    IF Len(allQuestions) = 0
    THEN activeQuestions = <<>> /\ currentQuestion = NoQ /\ showQuizSetup
    ELSE /\ Len(activeQuestions) >= 1
         /\ currentQuestion # NoQ
         /\ currentQuestion.number = activeQuestions[1].number
         /\ ~showQuizSetup

\* Witness of C6: a start with a topic no question has yields a round.
C6_Witness ==
  /\ last.op = "start"
  /\ last.arg = "Other"
  /\ Len(allQuestions) >= 2
  /\ Len(activeQuestions) >= 2
  /\ currentQuestion # NoQ

\* C7: right after a start that yields a round the cursor is 0, the streak 0,
\* the mistakes and the answer history empty, no outcome displayed, no
\* deferred advance pending, the review modal closed and the pending question
\* the first of the round.
C7_FreshRound ==
  (last.op = "start" /\ Len(activeQuestions) > 0) =>
    /\ currentQuestionIndex = 0
    /\ streak = 0
    /\ incorrectlyAnsweredQuestions = <<>>
    /\ answerHistory = NoHistory
    /\ answerStatus = NoStatus
    /\ selectedAlternativeLabel = NoLabel
    /\ feedbackTimeoutId = NoTimer
    /\ timers = {}
    /\ questionToReview = NoQ
    /\ currentQuestion.number = activeQuestions[1].number

\* Witness of C7: a round of two questions started over a state that held a
\* round past its first question with a mistake.
C7_Witness ==
  /\ last.op = "start"
  /\ last.dirty
  /\ Len(activeQuestions) = 2

\* C8: while an outcome is displayed, an answer or a skip changes neither the
\* streak, the mistakes, the answer history, the outcome nor the pending
\* deferred advance.
C8_NoDoubleSubmit ==
  [][ (answerStatus # NoStatus /\ (StepIs("answer") \/ StepIs("skip"))) =>
        UNCHANGED <<streak, incorrectlyAnsweredQuestions, answerHistory, answerStatus,
                    selectedAlternativeLabel, feedbackTimeoutId, timers>> ]_vars

\* Witness of C8: an answer was dispatched and rejected while the outcome of
\* a correct answer was displayed and its deferred advance pending.
C8_Witness ==
  /\ last.op = "answer"
  /\ ~last.ok
  /\ answerStatus = "correct"
  /\ streak = 1
  /\ timers # {}

\* The steps that replace or abandon the round
Abandons == StepIs("start") \/ StepIs("selector") \/ StepIs("leave") \/ (StepIs("pin") /\ last'.ok)

\* C9: no deferred advance outlives its round: after a start, a return to the
\* topic selector or a leave of the page none is pending, and a deferred
\* advance that runs was scheduled at the cursor of the round it advances.
C9_NoStaleAdvance ==
  [][ /\ Abandons => timers' = {}
      /\ (StepIs("advance") /\ last'.arg = "timer") =>
           \E t \in timers : /\ t \notin timers'
                             /\ t.aq = activeQuestions
                             /\ t.idx = currentQuestionIndex
                             /\ t.id = feedbackTimeoutId
                             /\ answerStatus # NoStatus ]_vars

\* Witness of C9: the topic selector was opened while a deferred advance was
\* pending (its id is still in the state cell) and none is pending now.
C9_Witness ==
  /\ last.op = "selector"
  /\ feedbackTimeoutId # NoTimer
  /\ timers = {}
  /\ showQuizSetup

\* C10: an answer or a skip with no pending question, a goBack at cursor 0
\* and an advance of a complete round change nothing of the round.
C10_InvalidCallsAreNoOps ==
  [][ ( \/ ((StepIs("answer") \/ StepIs("skip")) /\ currentQuestion = NoQ)
        \/ (StepIs("goBack") /\ currentQuestionIndex = 0)
        \/ (StepIs("advance") /\ Complete) )
      => UNCHANGED roundVars ]_vars

\* Witness of C10: a goBack was dispatched at the first question of a round
\* of two.
C10_Witness ==
  /\ last.op = "goBack"
  /\ ~last.ok
  /\ currentQuestionIndex = 0
  /\ currentQuestion # NoQ
  /\ Len(activeQuestions) = 2

\* C11: a goBack dispatched while an outcome is displayed at a cursor above 0
\* changes neither the cursor, the pending question, the outcome nor the
\* pending deferred advance; a goBack lowers the cursor only when no outcome
\* is displayed.
C11_GoBackInFeedbackRejected ==
  [][ /\ (StepIs("goBack") /\ currentQuestion # NoQ /\ answerStatus # NoStatus
            /\ currentQuestionIndex > 0) =>
           UNCHANGED <<currentQuestionIndex, currentQuestion, answerStatus,
                       selectedAlternativeLabel, feedbackTimeoutId, timers>>
      /\ (StepIs("goBack") /\ currentQuestionIndex' < currentQuestionIndex) =>
           answerStatus = NoStatus ]_vars

\* The steps that leave the quiz view
Navigates == StepIs("selector") \/ StepIs("leave") \/ StepIs("pin") \/ StepIs("reload")

\* C12: a complete round stays complete under answer, skip, advance and
\* goBack, with the cursor, the streak and the mistakes unchanged; apart from
\* leaving the quiz view only a start ends completeness, and it presents the
\* first question at cursor 0.
C12_CompleteIsTerminal ==
  [][ /\ (Complete /\ (StepIs("answer") \/ StepIs("skip") \/ StepIs("advance")
                         \/ StepIs("goBack"))) =>
           /\ Complete'
           /\ UNCHANGED <<currentQuestionIndex, streak, incorrectlyAnsweredQuestions>>
      /\ (Complete /\ ~Complete' /\ ~Navigates) => StepIs("start")
      /\ (Complete /\ StepIs("start") /\ Len(activeQuestions') > 0) =>
           (AwaitingAnswer' /\ currentQuestionIndex' = 0) ]_vars

\* Two presentations of one question: the same number, the same correct
\* label and the same set of alternatives
SamePresented(a, b) ==
  /\ a.number = b.number
  /\ a.correct_answer = b.correct_answer
  /\ a.pdf_filename = b.pdf_filename
  /\ Range(a.alternatives) = Range(b.alternatives)
  /\ Len(a.alternatives) = Len(b.alternatives)

\* C13: a goBack from a pending question at a cursor above 0, followed at
\* once by an advance, is back at that cursor with a pending question of the
\* same number, correct label and set of alternatives; the streak and the
\* mistakes are those before the goBack.
C13_GoBackThenAdvance ==
  (last.op = "advance" /\ last.prev.q # NoQ) =>
    /\ currentQuestionIndex = last.prev.idx
    /\ currentQuestion # NoQ
    /\ SamePresented(currentQuestion, last.prev.q)
    /\ answerStatus = NoStatus
    /\ streak = last.prev.streak
    /\ incorrectlyAnsweredQuestions = last.prev.mistakes

\* Witness of C13: on the notes-quiz page the pair has returned to cursor 1
\* with the alternatives in another order than before the goBack, a mistake
\* and a streak being kept.
C13_Witness ==
  /\ last.op = "advance"
  /\ last.prev.q # NoQ
  /\ currentQuestionIndex = 1
  /\ currentQuestion # last.prev.q
  /\ currentQuestion.number = last.prev.q.number
  /\ incorrectlyAnsweredQuestions # <<>>

\* The questions of a round are distinct questions of the pool
DistinctFromPool(round, qs) ==
  /\ \A i, j \in 1..Len(round) : i # j => round[i].number # round[j].number
  /\ \A i \in 1..Len(round) : \E k \in 1..Len(qs) : round[i] = qs[k]

\* C14: when no question of a non-empty pool matches the topic, the round is
\* made of exactly min(numQuestions, 5, pool size) distinct questions of the
\* whole pool.
C14_FallbackSize ==
  (last.op = "start" /\ Len(allQuestions) > 0
     /\ Matching(page, allQuestions, last.arg) = 0) =>
    /\ Len(activeQuestions) = Min(numQuestions, Min(5, Len(allQuestions)))
    /\ DistinctFromPool(activeQuestions, allQuestions)

\* Witness of C14: size 6 and a pool of 6 with a topic no question has give a
\* round of 5.
C14_Witness ==
  /\ last.op = "start"
  /\ last.arg = "Other"
  /\ numQuestions = 6
  /\ Len(allQuestions) = 6
  /\ Len(activeQuestions) = 5

\* C15: a round of a topic that questions of the pool have holds only
\* questions of that topic (a missing topic counting as the sentinel topic of
\* the page) and as many as min(numQuestions, questions of the topic).
C15_TopicRound ==
  (last.op = "start" /\ last.arg # "all"
     /\ Matching(page, allQuestions, last.arg) > 0) =>
    /\ \A i \in 1..Len(activeQuestions) : TopicOf(page, activeQuestions[i]) = last.arg
    /\ Len(activeQuestions) = Min(numQuestions, Matching(page, allQuestions, last.arg))
    /\ DistinctFromPool(activeQuestions, allQuestions)

\* Witness of C15: on the notes-quiz page the sentinel topic yields the one
\* question of a pool of six that has no topic.
C15_Witness ==
  /\ last.op = "start"
  /\ last.arg = "Unknown Source"
  /\ page = "notes"
  /\ Len(allQuestions) = 6
  /\ Len(activeQuestions) = 1
  /\ activeQuestions[1].pdf_filename = NoTopic

\* C16: in a round without goBack the number of advances so far is the
\* cursor while a question is pending, and the round is complete exactly
\* when that number is the length of the round, with the cursor at the last
\* question.
C16_CompleteAfterNAdvances ==
  (Len(activeQuestions) > 0 /\ ~showQuizSetup /\ last.advances >= 0) =>
    /\ Complete <=> last.advances = Len(activeQuestions)
    /\ Complete => currentQuestionIndex = Len(activeQuestions) - 1
    /\ ~Complete => currentQuestionIndex = last.advances
    /\ last.advances <= Len(activeQuestions)

\* Witness of C16: a round of two questions asked with size 10 is complete
\* after two advances.
C16_Witness ==
  /\ Complete
  /\ numQuestions = 10
  /\ Len(activeQuestions) = 2
  /\ last.advances = 2
  /\ currentQuestionIndex = 1

\* C17: the mistakes are, by number and in order, the questions that got an
\* incorrect answer since the start of the round, in the order of their
\* first incorrect answer, whatever was answered on them later.
C17_MistakesAreFirstWrongs ==
  [i \in 1..Len(incorrectlyAnsweredQuestions) |-> incorrectlyAnsweredQuestions[i].number]
    = last.wrong

\* Witness of C17: two mistakes, and the question of the first has since been
\* answered correctly after a goBack.
C17_Witness ==
  /\ Len(incorrectlyAnsweredQuestions) = 2
  /\ answerHistory[incorrectlyAnsweredQuestions[1].number] # <<>>
  /\ answerHistory[incorrectlyAnsweredQuestions[1].number][2] = TRUE
  /\ last.op = "answer"
  /\ answerStatus = "incorrect"

\* A deferred advance of the current render is pending after the step
AdvanceScheduled ==
  /\ feedbackTimeoutId' # NoTimer
  /\ \E t \in timers' : /\ t.id = feedbackTimeoutId'
                        /\ t.aq = activeQuestions
                        /\ t.idx = currentQuestionIndex

\* C18: an answer, a skip or a start whose call of the telemetry sink fails
\* (the event is rejected or the call raises) ends in the state a delivered
\* event ends in: the outcome is recorded, the streak and the mistakes are
\* updated, the deferred advance is scheduled, the round is started.
C18_SinkFailureHarmless ==
  [][ (last'.sink \in {"rejected", "throws"}) =>
        /\ (StepIs("answer") /\ AwaitingAnswer) =>
             LET correct == SameLetter(last'.arg, currentQuestion.correct_answer)
             IN /\ answerStatus' = (IF correct THEN "correct" ELSE "incorrect")
                /\ selectedAlternativeLabel' = last'.arg
                /\ streak' = (IF correct THEN streak + 1 ELSE 0)
                /\ answerHistory'[currentQuestion.number] = <<last'.arg, correct>>
                /\ ~correct => \E i \in 1..Len(incorrectlyAnsweredQuestions') :
                                 incorrectlyAnsweredQuestions'[i].number = currentQuestion.number
                /\ AdvanceScheduled
        /\ (StepIs("skip") /\ AwaitingAnswer) =>
             /\ answerStatus' = "skipped"
             /\ UNCHANGED <<streak, incorrectlyAnsweredQuestions>>
             /\ AdvanceScheduled
        /\ (StepIs("start") /\ Len(allQuestions) > 0) =>
             /\ Len(activeQuestions') > 0
             /\ currentQuestion' # NoQ
             /\ ~showQuizSetup' ]_vars

\* The steps that mount a component anew
Remounts == StepIs("reload") \/ StepIs("leave") \/ (StepIs("pin") /\ last'.ok)

\* C19: a failed fetch ends the loading with an error and an empty pool;
\* from then on, until the page is reloaded or left, the error and the empty
\* pool stay, no round exists (no pending question, no questions of a round)
\* and no fetch completes again.
C19_FetchFailureIsTerminal ==
  [][ /\ (StepIs("load") /\ last'.arg = "fail") =>
           (error' # NoError /\ ~isLoading' /\ allQuestions' = <<>>)
      /\ (error = "HTTP error" /\ ~Remounts) =>
           /\ error' = error
           /\ ~isLoading'
           /\ allQuestions' = <<>>
           /\ activeQuestions' = <<>>
           /\ currentQuestion' = NoQ
           /\ ~StepIs("load") ]_vars

\* Witness of C19: on the main page a start was dispatched after the fetch
\* had failed and no round exists.
C19_Witness ==
  /\ last.op = "start"
  /\ page = "home"
  /\ error = "HTTP error"
  /\ activeQuestions = <<>>
  /\ currentQuestion = NoQ

\* C20: an answer dispatched right after an accepted goBack is accepted,
\* whether or not the question was answered before, and sets the streak, the
\* mistakes, the recorded answer and the outcome as a first answer does.
C20_AnswerAfterGoBack ==
  [][ (StepIs("answer") /\ last.op = "goBack" /\ last.ok) =>
        LET correct == SameLetter(last'.arg, currentQuestion.correct_answer)
            known == \E i \in 1..Len(incorrectlyAnsweredQuestions) :
                       incorrectlyAnsweredQuestions[i].number = currentQuestion.number
        IN /\ last'.ok
           /\ answerStatus' = (IF correct THEN "correct" ELSE "incorrect")
           /\ streak' = (IF correct THEN streak + 1 ELSE 0)
           /\ answerHistory' =
                [answerHistory EXCEPT ![currentQuestion.number] = <<last'.arg, correct>>]
           /\ incorrectlyAnsweredQuestions' =
                (IF correct \/ known THEN incorrectlyAnsweredQuestions
                 ELSE Append(incorrectlyAnsweredQuestions, currentQuestion)) ]_vars

\* Witness of C20: after a goBack a question answered correctly before has
\* been answered incorrectly: the streak is back to 0, the question is now a
\* mistake and its recorded answer is the new one.
C20_Witness ==
  /\ last.op = "answer"
  /\ last.afterGoBack
  /\ last.ok
  /\ answerStatus = "incorrect"
  /\ streak = 0
  /\ currentQuestionIndex = 0
  /\ Len(incorrectlyAnsweredQuestions) = 1
  /\ incorrectlyAnsweredQuestions[1].number = currentQuestion.number
  /\ answerHistory[currentQuestion.number] = <<last.arg, FALSE>>
  /\ last.advances = -1

(***************************************************************************)
(* C21: handleAnswer itself leaves the cursor, the pending question and    *)
(* the round's questions unchanged; within a round the cursor changes only *)
(* when loadNextQuestion (called directly or by the timeout) or            *)
(* handleGoBack runs.  The other steps that set the cursor are those that  *)
(* start a round or leave the quiz view (start, selector, leave, pin,      *)
(* reload).                                                                *)
(***************************************************************************)
C21_AnswerKeepsCursor ==
  [][ /\ StepIs("answer") =>
           UNCHANGED <<currentQuestionIndex, currentQuestion, activeQuestions>>
      /\ currentQuestionIndex' # currentQuestionIndex =>
           StepIs("advance") \/ StepIs("goBack") \/ StepIs("start") \/ Navigates ]_vars

\* An accepted answer on the second question: its outcome is displayed and
\* the second question is still the pending one
C21_Witness ==
  /\ last.op = "answer" /\ last.ok
  /\ currentQuestionIndex = 1
  /\ currentQuestion # NoQ
  /\ answerStatus \in {"correct", "incorrect"}
  /\ timers # {}

(***************************************************************************)
(* C22: an accepted handleGoBack lowers the cursor by exactly 1, presents  *)
(* the question stored one place before the old cursor, clears the outcome *)
(* and the selected label, and leaves the streak, the mistakes, the answer *)
(* history and the round's questions unchanged.                            *)
(***************************************************************************)
C22_GoBackEffect ==
  [][ (StepIs("goBack") /\ last'.ok) =>
        /\ currentQuestionIndex' = currentQuestionIndex - 1
        /\ currentQuestionIndex - 1 \in 0..(Len(activeQuestions) - 1)
        /\ SamePresented(currentQuestion', activeQuestions[currentQuestionIndex])
        /\ answerStatus' = NoStatus
        /\ selectedAlternativeLabel' = NoLabel
        /\ UNCHANGED <<streak, incorrectlyAnsweredQuestions, answerHistory,
                       activeQuestions>> ]_vars

\* An accepted goBack from the second question of a round with a streak, a
\* mistake and a recorded answer to keep
C22_Witness ==
  /\ last.op = "goBack" /\ last.ok
  /\ last.prev.idx = 1
  /\ currentQuestionIndex = 0
  /\ currentQuestion.number = activeQuestions[1].number
  /\ incorrectlyAnsweredQuestions # <<>>
  /\ answerHistory[activeQuestions[1].number] # <<>>

(***************************************************************************)
(* C23: whenever a question is pending the cursor is a position of the     *)
(* round and the pending question has the number of the question stored at *)
(* the cursor; whenever the quiz view is rendered for a non-empty round    *)
(* with no pending question the cursor is at the last position, so the     *)
(* view rendered is the completion screen and never a quiz screen without  *)
(* a question.                                                             *)
(***************************************************************************)
C23_CursorAndPending ==
  /\ currentQuestion # NoQ =>
       /\ currentQuestionIndex \in 0..(Len(activeQuestions) - 1)
       /\ currentQuestion.number = activeQuestions[currentQuestionIndex + 1].number
  /\ (Screen \in {"quiz", "complete"} /\ Len(activeQuestions) > 0
        /\ currentQuestion = NoQ) =>
       /\ currentQuestionIndex = Len(activeQuestions) - 1
       /\ Screen = "complete"
  /\ Screen = "quiz" => currentQuestion # NoQ

\* A round of two finished by an advance from its last question
C23_Witness ==
  /\ Len(activeQuestions) = 2
  /\ currentQuestionIndex = 1
  /\ currentQuestion = NoQ
  /\ Screen = "complete"
  /\ last.op = "advance"

(***************************************************************************)
(* A round played through the controls of the page with the default       *)
(* topic and size, with a fair timer: a timeout that stays pending runs    *)
(* its callback (setTimeout fires unless clearTimeout removed it first).   *)
(***************************************************************************)
NextLive ==
  \/ FetchResolves
  \/ FetchFails
  \/ ClickStart
  \/ ClickPlayAgain
  \/ ClickAlternative
  \/ ClickSkip
  \/ ClickBack
  \/ ClickReview
  \/ ClickCloseReview
  \/ ClickExit
  \/ ClickTryAgain
  \/ TimeoutElapses

SpecLive == Init /\ [][NextLive]_vars /\ WF_vars(TimeoutElapses)

\* The outcome of an accepted answer or skip at cursor i has just been set
Feedback(i) ==
  /\ last.op \in {"answer", "skip"} /\ last.ok
  /\ currentQuestionIndex = i
  /\ currentQuestion # NoQ
  /\ answerStatus # NoStatus

\* An advance from cursor i has run: the next question is pending, or the
\* round is complete at its last position i
AdvancedFrom(i) ==
  /\ last.op = "advance"
  /\ answerStatus = NoStatus
  /\ \/ /\ last.ok
        /\ currentQuestionIndex = i + 1
        /\ currentQuestion # NoQ
     \/ /\ ~last.ok
        /\ currentQuestionIndex = i
        /\ i = Len(activeQuestions) - 1
        /\ Complete

\* A round was started or the quiz view was left
RoundLeft == last.op \in {"start", "selector", "leave", "reload"} \/ (last.op = "pin" /\ last.ok)

C25_OneDeferredAdvance ==
  /\ [](/\ Cardinality(timers) <= 1
        /\ timers # {} =>
             /\ answerStatus # NoStatus
             /\ currentQuestion # NoQ
             /\ \A t \in timers : t.id = feedbackTimeoutId)
  /\ [][ (StepIs("advance") \/ (StepIs("goBack") /\ last'.ok) \/ StepIs("start"))
           => timers' = {} ]_vars

\* An accepted goBack that was dispatched while a deferred advance was
\* pending, and left none
C25_Witness ==
  /\ last.op = "goBack" /\ last.ok
  /\ last.arg = "timer pending"
  /\ currentQuestion # NoQ
  /\ timers = {}

\* The questions a round of all topics can take: at most per from each topic
RECURSIVE SharesTotal(_, _, _)
SharesTotal(groups, qs, per) ==
  IF groups = {} THEN 0
  ELSE LET g == CHOOSE x \in groups : TRUE
       IN Min(per, FromGroup(qs, g)) + SharesTotal(groups \ {g}, qs, per)

\* A round of all topics started on the notes-quiz page from a pool with
\* questions
AllTopicsRound ==
  last.op = "start" /\ last.arg = "all" /\ page = "notes" /\ Len(allQuestions) > 0

\* C26 as stated: a round of all topics on the notes-quiz page has exactly
\* numQuestions questions whenever the pool holds at least numQuestions.
C26_ExactSizeAsStated ==
  (AllTopicsRound /\ Len(allQuestions) >= numQuestions) =>
    Len(activeQuestions) = numQuestions

(***************************************************************************)
(* C26: a round of all topics on the notes-quiz page has                   *)
(* min(numQuestions, sum over the topics of min(ceil(numQuestions /        *)
(* number of topics), questions of the topic)) questions: exactly          *)
(* numQuestions whenever every topic holds at least ceil(numQuestions /    *)
(* number of topics) questions, and fewer when the topics with fewer       *)
(* questions leave the sum below numQuestions, even though the pool holds  *)
(* at least numQuestions.                                                  *)
(***************************************************************************)
C26_SizeByTopicShares ==
  AllTopicsRound =>
    LET groups == {GroupOf(allQuestions[i]) : i \in 1..Len(allQuestions)}
        per == (numQuestions + Cardinality(groups) - 1) \div Cardinality(groups)
    IN /\ Len(activeQuestions) =
            Min(numQuestions, SharesTotal(groups, allQuestions, per))
       /\ (\A g \in groups : FromGroup(allQuestions, g) >= per) =>
            Len(activeQuestions) = numQuestions

\* A pool of five questions in three topics (3, 1 and 1) and a size of five:
\* the round has four questions
C26_Witness ==
  /\ AllTopicsRound
  /\ Len(allQuestions) = 5
  /\ numQuestions = 5
  /\ NumTopics(allQuestions) = 3
  /\ Len(activeQuestions) = 4

\* b holds the elements of a, each as often as a does
IsPermutation(a, b) ==
  /\ Len(a) = Len(b)
  /\ \A x \in Range(a) \cup Range(b) :
       Cardinality({i \in 1..Len(a) : a[i] = x}) = Cardinality({i \in 1..Len(b) : b[i] = x})

\* out is what shuffleAlternatives may return for the question in
ShuffledCopy(out, in) ==
  IF "alternatives" \notin DOMAIN in THEN out = in
  ELSE /\ DOMAIN out = DOMAIN in
       /\ out.number = in.number
       /\ out.question_text = in.question_text
       /\ out.pdf_filename = in.pdf_filename
       /\ out.correct_answer = in.correct_answer
       /\ IsPermutation(out.alternatives, in.alternatives)

(***************************************************************************)
(* C27: the question shuffleAlternatives returns for a presentation (an    *)
(* advance, a goBack) or a review has the number, the text and the correct *)
(* label of the stored question and a permutation of its alternatives, and *)
(* the stored mistakes and the round's questions are unchanged by the      *)
(* step; a record without alternatives is returned as it is.               *)
(***************************************************************************)
C27_ShuffledCopy ==
  [][ /\ StepIs("review") =>
           /\ \E i \in 1..Len(incorrectlyAnsweredQuestions) :
                /\ incorrectlyAnsweredQuestions[i].number = last'.arg
                /\ ShuffledCopy(questionToReview', incorrectlyAnsweredQuestions[i])
           /\ UNCHANGED <<incorrectlyAnsweredQuestions, activeQuestions>>
      /\ ((StepIs("advance") \/ StepIs("goBack")) /\ last'.ok) =>
           /\ ShuffledCopy(currentQuestion', activeQuestions[currentQuestionIndex' + 1])
           /\ UNCHANGED <<incorrectlyAnsweredQuestions, activeQuestions>> ]_vars

\* The record without alternatives is presented as it is stored while the
\* review shows the long question with its alternatives in another order
C27_Witness ==
  /\ last.op = "advance" /\ last.ok
  /\ currentQuestion = Malformed
  /\ questionToReview.number = LongQuestion.number
  /\ questionToReview.alternatives # LongQuestion.alternatives
  /\ LongQuestion \in Range(incorrectlyAnsweredQuestions)

(***************************************************************************)
(* C28: no operation on a round or on the setup (start, answer, skip,      *)
(* advance, goBack, review, return to the setup, choice of topic and size) *)
(* changes the loaded pool, which changes only when the fetch delivers it  *)
(* or the component is mounted again; and answer, skip, advance, goBack    *)
(* and review leave the round's questions and their order unchanged.       *)
(***************************************************************************)
C28_PoolAndRoundFixed ==
  [][ /\ last'.op \in {"start", "answer", "skip", "advance", "goBack", "review",
                       "closeReview", "selector", "session", "size"} =>
           UNCHANGED allQuestions
      /\ allQuestions' # allQuestions => (StepIs("load") \/ Remounts)
      /\ last'.op \in {"answer", "skip", "advance", "goBack", "review", "closeReview"} =>
           UNCHANGED activeQuestions ]_vars

\* A goBack on the notes-quiz page presented the first question with its
\* alternatives in another order than the round stores them
C28_Witness ==
  /\ last.op = "goBack" /\ last.ok
  /\ page = "notes"
  /\ Len(allQuestions) = 2
  /\ currentQuestion.number = activeQuestions[1].number
  /\ currentQuestion.alternatives # activeQuestions[1].alternatives

(***************************************************************************)
(* C29: the pool has no number twice, and no started round holds a         *)
(* question twice, whether it was sampled per topic ("all" on the          *)
(* notes-quiz page), from the whole pool ("all" on the main page), from    *)
(* one topic, or by the fallback.                                          *)
(***************************************************************************)
C29_NoQuestionTwice ==
  /\ \A i, j \in 1..Len(allQuestions) :
       i # j => allQuestions[i].number # allQuestions[j].number
  /\ last.op = "start" =>
       \A i, j \in 1..Len(activeQuestions) :
         i # j => activeQuestions[i].number # activeQuestions[j].number

\* A round of all topics on the notes-quiz page that took two questions of
\* each of two topics and the only question of the third
C29_Witness ==
  /\ last.op = "start" /\ last.arg = "all"
  /\ page = "notes"
  /\ Len(allQuestions) = 6
  /\ numQuestions = 6
  /\ Len(activeQuestions) = 5
  /\ FromGroup(activeQuestions, "A") = 2
  /\ FromGroup(activeQuestions, "B") = 2

\* C30 as stated: in every state of a round the streak is at most the number
\* of questions of the round.
C30_StreakBoundedAsStated ==
  Len(activeQuestions) > 0 => streak <= Len(activeQuestions)

(***************************************************************************)
(* C30: in every state of a round in which no goBack has been accepted the *)
(* streak is at most the cursor plus one, hence at most the number of      *)
(* questions of the round: each position contributes at most one.  An      *)
(* accepted goBack opens a position for another answer, and the streak     *)
(* counts that answer too.                                                 *)
(***************************************************************************)
C30_StreakBoundedWithoutGoBack ==
  (Len(activeQuestions) > 0 /\ last.advances >= 0) =>
    /\ streak <= currentQuestionIndex + 1
    /\ currentQuestionIndex + 1 <= Len(activeQuestions)

\* A round of two answered correctly twice without a goBack: the streak is
\* the number of questions
C30_Witness ==
  /\ Len(activeQuestions) = 2
  /\ last.advances >= 0
  /\ last.op = "answer" /\ last.ok
  /\ currentQuestionIndex = 1
  /\ streak = 2

====
